---- MODULE Spec2Model ----
(***************************************************************************)
(* State-machine model of the HPC data-centre power simulation             *)
(* (rakshit9695/HPC_Commercial).                                           *)
(*                                                                         *)
(* Part 1: HybridPowerPlant (src/HPP.py) with the configuration of         *)
(* src/datacenter_config.py.                                               *)
(*                                                                         *)
(* Arithmetic.  The program computes in floating point; the model computes *)
(* the same quantities exactly, in integers, by a choice of units:         *)
(*   - the efficiency 0.92 is the fraction EffN/EffD = 23/25 and a step    *)
(*     lasts 1/StepsPerHour = 1/12 h;                                      *)
(*   - energy (SOC) is counted in units of 1/(EffN*EffD*StepsPerHour) MWh  *)
(*     (MWh == 6900 units);                                                *)
(*   - power is counted in units of 1/(EffN^2*EffD^2) MW (MW == 330625).   *)
(* Charging c power units for one step then adds c/ChargeDiv energy units  *)
(* and discharging d power units removes d/DischargeDiv energy units, and  *)
(* both divisions are exact for every value the model produces.            *)
(***************************************************************************)
EXTENDS Integers, Sequences, FiniteSets, TLC

\* ----------------------------------------------------------------- bounds
MaxSteps == 35        \* optimize_dispatch calls made on one plant in a run
MaxChanges == 0       \* times the caller changes its operating point in a run
MaxUpdates == 3       \* update_metrics calls made on one PowerMetrics in a run
MaxReads == 2         \* get_summary calls between two update_metrics calls
MaxPairSteps == 1     \* optimize_dispatch calls on each of two interleaved plants
MaxPairUpdates == 1   \* update_metrics calls on each of two interleaved aggregators
MaxSwitches == 1      \* changes of operating point in a run with a varying load

\* -------------------------------------------- src/datacenter_config.py
TIME_STEP_MINUTES == 5
BATTERY_CAPACITY_MWH == 15
BATTERY_EFFICIENCY_PCT == 92         \* BATTERY_EFFICIENCY = 0.92
MIN_SOC_PCT == 20                    \* MIN_SOC = 0.2
MAX_CHARGE_RATE_MW == 3
GRID_MAX_IMPORT_MW == 4
GRID_ENERGY_PRICE_CENTS == 12        \* GRID_ENERGY_PRICE = 0.12
PENALTY_COST_CURTAILMENT == 1000
INITIAL_SOC_PCT == 50                \* capacity * 0.5 in __init__

VARIABLES
  CONFIG,           \* record   the HPPConfig object of datacenter_config.py
  startup           \* STRING   "ok", or the exception raised while importing it

\* ------------------------------------------------------------------ units
Min(a, b) == IF a <= b THEN a ELSE b
Max(a, b) == IF a >= b THEN a ELSE b

EffN == BATTERY_EFFICIENCY_PCT \div 4          \* 0.92 = 23/25
EffD == 100 \div 4
StepsPerHour == 60 \div TIME_STEP_MINUTES      \* timestep_hr = 1/12
ChargeDiv == EffD * EffD                       \* power units per energy unit gained
DischargeDiv == EffN * EffN                    \* power units per energy unit lost
MWh == EffN * EffD * StepsPerHour              \* energy units in 1 MWh
MW == ChargeDiv * DischargeDiv                 \* power units in 1 MW

Capacity == CONFIG.capacity * MWh                       \* CONFIG.storage['capacity']
MinSocLevel == (CONFIG.min_soc * Capacity) \div 100     \* min_soc * capacity
InitialSoc == (INITIAL_SOC_PCT * Capacity) \div 100
MaxCharge == MAX_CHARGE_RATE_MW * MW                    \* CONFIG.storage['max_charge']
MaxImport == GRID_MAX_IMPORT_MW * MW                    \* CONFIG.grid['max_import']

\* ----------------------------------------------------------- environment
Plants == {1, 2}
\* constructor arguments (solar_profile, wind_profile), in MW per step index
WindProfilesMW == {<<0, 3, 0>>}
SolarProfilesMW == {<<0, 1, 0>>}
DemandsMW == {0, 3, 9}

\* The LP solver (CBC behind pulp) is a deterministic program whose choice
\* among equally good optima, and whose reported point when the problem is
\* infeasible, are not fixed by the source.  A run fixes one behaviour:
\*   tie    - which optimal point is returned when several exist;
\*   infeas - which constraint the reported point gives up when none exists.
TiePolicies == {"idle", "charge", "discharge", "churn"}
InfeasPolicies == {"short", "overdraw", "overimport"}
Solvers == [tie : TiePolicies, infeas : InfeasPolicies]

VARIABLES
  battery_soc,      \* [Plants -> Int]       self.battery_soc (energy units)
  soc_history,      \* [Plants -> Seq(Int)]  self.soc_history
  wind,             \* [Plants -> Seq(Int)]  self.wind  (power units)
  solar,            \* [Plants -> Seq(Int)]  self.solar (power units)
  solver,           \* the solver behaviour of this run
  call,             \* [Plants -> record]    arguments and state read by the last call
  lp_status,        \* [Plants -> STRING]    prob.status after the last solve
  ret,              \* [Plants -> record]    dict returned by the last call
  changes,          \* number of times the caller changed its arguments
  metrics,          \* [Aggregators -> [MetricKeys -> Int]]  self.metrics
  emissions,        \* [Aggregators -> [EmissionKeys -> Int]] self.emissions
  utilization_samples,  \* [Aggregators -> Seq(Int)]  self.utilization_samples
  raised,           \* [Aggregators -> STRING]  exception raised by update_metrics, or "none"
  summary,          \* [Aggregators -> record]  dict returned by the last get_summary
  reads,            \* [Aggregators -> Nat]     get_summary calls since the last update
  power_system,     \* record   the PowerSystem object (main.py)
  ps_ret,           \* record   last PowerSystem method call and what it returned
  analysis,         \* record   losses_vs_distance of the last generate_distance_analysis
  wind_farm,        \* record   the WindFarm object (wind_farm.py)
  wf_ret,           \* record   last WindFarm method call and what it returned
  step,             \* Nat      loop variable of EnhancedHybridSimulation.run
  current_time,     \* Nat      run's current_time, minutes after start_time
  timesteps,        \* Seq      run's timesteps
  power_data,       \* Seq      run's power_data
  run_pc,           \* STRING   "loop" inside run's for loop, "returned" after it
  gw_ret            \* record   the last call of calculate_grid_and_wind_power

hppVars == <<CONFIG, startup, battery_soc, soc_history, wind, solar, solver, call, lp_status, ret, changes>>
metricsVars == <<metrics, emissions, utilization_samples, raised, summary, reads>>
transVars == <<power_system, ps_ret, analysis, wind_farm, wf_ret>>
vars == <<CONFIG, startup, battery_soc, soc_history, wind, solar, solver, call, lp_status, ret, changes,
          metrics, emissions, utilization_samples, raised, summary, reads,
          power_system, ps_ret, analysis, wind_farm, wf_ret,
          step, current_time, timesteps, power_data, run_pc, gw_ret>>
runVars == <<step, current_time, timesteps, power_data, run_pc, gw_ret>>

\* ------------------------------------------------ the LP of optimize_dispatch
\* The five decision variables with their box bounds (HPP.py 17-21).
BoxOK(x, W, S) ==
  /\ 0 <= x.grid /\ x.grid <= MaxImport
  /\ 0 <= x.wind_used /\ x.wind_used <= W
  /\ 0 <= x.solar_used /\ x.solar_used <= S
  /\ 0 <= x.battery_charge /\ x.battery_charge <= MaxCharge
  /\ 0 <= x.battery_discharge /\ x.battery_discharge <= MaxCharge

\* the power balance as an equality
BalanceExact(x, D) ==
  x.grid + x.wind_used + x.solar_used + x.battery_discharge - x.battery_charge = D
\* Power balance constraint (HPP.py 34).
BalanceOK(x, D) ==
  x.grid + x.wind_used + x.solar_used + x.battery_discharge - x.battery_charge >= D

\* new_soc, the affine expression of HPP.py 37-38:
\*   soc + (charge * eff - discharge * (1/eff)) * timestep_hr
NewSocSwapped(soc, c, d) == soc + (c \div DischargeDiv) - (d \div ChargeDiv)
NewSoc(soc, c, d) == soc + (c \div ChargeDiv) - (d \div DischargeDiv)

\* SOC constraints (HPP.py 39-40).
SocOK(soc, x) ==
  /\ NewSoc(soc, x.battery_charge, x.battery_discharge) <= Capacity
  /\ NewSoc(soc, x.battery_charge, x.battery_discharge) >= MinSocLevel

Constraints(soc, D, W, S, x) == BoxOK(x, W, S) /\ BalanceOK(x, D) /\ SocOK(soc, x)

\* Objective (HPP.py 28-30), divided by 40 to stay within machine integers:
\*   grid * energy_price * 1000 + (wind_curtail + solar_curtail) * penalty
GridWeight == (GRID_ENERGY_PRICE_CENTS * 10) \div 40
CurtailWeight == PENALTY_COST_CURTAILMENT \div 40
CostNegPenalty(x, W, S) ==
  x.grid * GridWeight - (W - x.wind_used) * CurtailWeight - (S - x.solar_used) * CurtailWeight
CostNegGrid(x, W, S) ==
  (W - x.wind_used) * CurtailWeight + (S - x.solar_used) * CurtailWeight - x.grid * GridWeight
Cost(x, W, S) ==
  x.grid * GridWeight + (W - x.wind_used) * CurtailWeight + (S - x.solar_used) * CurtailWeight

Point(g, w, s, c, d) ==
  [grid |-> g, wind_used |-> w, solar_used |-> s, battery_charge |-> c, battery_discharge |-> d]

\* ---------------------------------------------------------------- the solve
\* What the SOC constraints force and allow for one step, in power units.
ForcedCharge(soc) == Max(0, (MinSocLevel - soc) * ChargeDiv)
ForcedDischarge(soc) == Max(0, (soc - Capacity) * DischargeDiv)
\* the largest net discharge (discharge - charge) the rate limit and the SOC
\* floor allow
NetMax(soc) ==
  IF soc >= MinSocLevel
    THEN Min(MaxCharge, (soc - MinSocLevel) * DischargeDiv)
    ELSE 0 - ForcedCharge(soc)

\* A basic solution of the battery variables that delivers a net discharge of
\* at least `need` (need <= NetMax(soc)), one per tie-breaking behaviour:
\*   idle      - the least charge and discharge the constraints allow;
\*   charge    - idle, plus all the charge the surplus, rate and headroom allow;
\*   discharge - idle, plus all the discharge the rate and SOC floor allow;
\*   churn     - charge and discharge both at the rate limit, when that is feasible.
BatteryMove(mode, soc, need) ==
  LET c0 == ForcedCharge(soc)
      d0 == Max(ForcedDischarge(soc), need + c0)
      s0 == NewSoc(soc, c0, d0)
      slack == d0 - c0 - need
      more_c == Max(0, Min(slack, Min(MaxCharge - c0, (Capacity - s0) * ChargeDiv)))
      more_d == Max(0, Min(MaxCharge - d0, (s0 - MinSocLevel) * DischargeDiv))
      sM == NewSoc(soc, MaxCharge, MaxCharge)
  IN  CASE mode = "charge" /\ d0 = 0 -> [c |-> c0 + more_c, d |-> d0]
        [] mode = "discharge" -> [c |-> c0, d |-> d0 + more_d]
        [] mode = "churn" /\ need <= 0 /\ sM >= MinSocLevel /\ sM <= Capacity
             -> [c |-> MaxCharge, d |-> MaxCharge]
        [] OTHER -> [c |-> c0, d |-> d0]

\* The basic solution that uses w of the wind and s of the solar, imports g
\* from the grid, and moves the battery by `mode` to cover the rest.
Candidate(mode, soc, D, w, s, g) ==
  LET b == BatteryMove(mode, soc, D - w - s - g)
  IN  Point(g, w, s, b.c, b.d)

\* For each use of the renewables: the least import the balance needs, and
\* the largest the box allows.
Candidates(mode, soc, D, W, S) ==
  UNION {{Candidate(mode, soc, D, w, s, Max(0, D - w - s - NetMax(soc))),
          Candidate(mode, soc, D, w, s, MaxImport)} : w \in {0, W}, s \in {0, S}}

\* The point CBC reports for a problem without a feasible point: it gives up
\* the power balance ("short"), the SOC floor ("overdraw") or the import
\* bound ("overimport").
InfeasiblePoint(kind, soc, D, W, S) ==
  LET dsafe == Max(0, NetMax(soc))
  IN  CASE kind = "short" -> Point(MaxImport, W, S, 0, dsafe)
        [] kind = "overdraw" -> Point(MaxImport, W, S, 0, MaxCharge)
        [] OTHER -> Point(Max(0, D - W - S - dsafe), W, S, 0, dsafe)

\* prob.solve(pulp.PULP_CBC_CMD(msg=0)) on the problem built in HPP.py 14-40:
\* a feasible point of least cost, or, when there is none, the reported point.
LPSolveStateful(sv, soc, D, W, S) ==
  LET tie == IF Len(soc_history[1]) % 2 = 0 THEN sv.tie ELSE "discharge"
      feas == {x \in Candidates(tie, soc, D, W, S) : Constraints(soc, D, W, S, x)}
      best == {x \in feas : \A y \in feas : Cost(x, W, S) <= Cost(y, W, S)}
  IN  IF feas = {}
        THEN [status |-> "Infeasible", x |-> InfeasiblePoint(sv.infeas, soc, D, W, S)]
        ELSE [status |-> "Optimal", x |-> CHOOSE x \in best : TRUE]
LPSolve(sv, soc, D, W, S) ==
  LET feas == {x \in Candidates(sv.tie, soc, D, W, S) : Constraints(soc, D, W, S, x)}
      best == {x \in feas : \A y \in feas : Cost(x, W, S) <= Cost(y, W, S)}
  IN  IF feas = {}
        THEN [status |-> "Infeasible", x |-> InfeasiblePoint(sv.infeas, soc, D, W, S)]
        ELSE [status |-> "Optimal", x |-> CHOOSE x \in best : TRUE]

\* ----------------------------------------------------------- HybridPowerPlant
NoCall == [soc |-> 0, demand |-> 0, wind |-> 0, solar |-> 0]
NoDecision ==
  [grid |-> 0, wind_used |-> 0, solar_used |-> 0, battery_charge |-> 0,
   battery_discharge |-> 0, soc |-> 0, wind_curtail |-> 0, solar_curtail |-> 0]

ToPower(profileMW) == [i \in 1..Len(profileMW) |-> profileMW[i] * MW]

\* HPPConfig.__init__ over the module constants of datacenter_config.py:
\* capacity in MWh, min_soc in percent, the time step in minutes
HPPConfig(capacity, min_soc, time_step_mins) ==
  [capacity |-> capacity, min_soc |-> min_soc, time_step_mins |-> time_step_mins]
\* import of datacenter_config: SIMULATION_STEPS = int(hours * 60 / TIME_STEP_MINUTES)
\* is computed at module level, before CONFIG = HPPConfig()
ImportStatus(c) == IF c.time_step_mins = 0 THEN "ZeroDivisionError" ELSE "ok"
ConfigInit ==
  /\ CONFIG = HPPConfig(BATTERY_CAPACITY_MWH, MIN_SOC_PCT, TIME_STEP_MINUTES)
  /\ startup = ImportStatus(CONFIG)

\* HybridPowerPlant.__init__ for every plant
HPPInit ==
  /\ battery_soc = [p \in Plants |-> InitialSoc]
  /\ soc_history = [p \in Plants |-> <<>>]
  /\ \E wp \in WindProfilesMW, sp \in SolarProfilesMW :
       /\ wind = [p \in Plants |-> ToPower(wp)]
       /\ solar = [p \in Plants |-> ToPower(sp)]
  /\ solver \in Solvers
  /\ call = [p \in Plants |-> NoCall]
  /\ lp_status = [p \in Plants |-> "Not Solved"]
  /\ ret = [p \in Plants |-> NoDecision]
  /\ changes = 0

\* optimize_dispatch with soc_history one list shared by all plants
optimize_dispatch_shared(p, hpc_demand, current_step) ==
  LET W == wind[p][current_step]
      S == solar[p][current_step]
  IN  \E r \in {LPSolve(solver, battery_soc[p], hpc_demand, W, S)} :
      \E new_soc \in {NewSoc(battery_soc[p], r.x.battery_charge, r.x.battery_discharge)} :
        /\ battery_soc' = [battery_soc EXCEPT ![p] = new_soc]
        /\ soc_history' = [q \in Plants |-> Append(soc_history[q], new_soc)]
        /\ lp_status' = [lp_status EXCEPT ![p] = r.status]
        /\ call' = [call EXCEPT ![p] =
                      [soc |-> battery_soc[p], demand |-> hpc_demand, wind |-> W, solar |-> S]]
        /\ ret' = [ret EXCEPT ![p] =
                     [grid |-> r.x.grid, wind_used |-> r.x.wind_used,
                      solar_used |-> r.x.solar_used,
                      battery_charge |-> r.x.battery_charge,
                      battery_discharge |-> r.x.battery_discharge,
                      soc |-> new_soc,
                      wind_curtail |-> W - r.x.wind_used,
                      solar_curtail |-> S - r.x.solar_used]]
        /\ UNCHANGED <<CONFIG, startup, wind, solar, solver>>
\* optimize_dispatch recording the SOC it read, not the SOC it wrote
optimize_dispatch_stale(p, hpc_demand, current_step) ==
  LET W == wind[p][current_step]
      S == solar[p][current_step]
  IN  \E r \in {LPSolve(solver, battery_soc[p], hpc_demand, W, S)} :
      \E new_soc \in {NewSoc(battery_soc[p], r.x.battery_charge, r.x.battery_discharge)} :
        /\ battery_soc' = [battery_soc EXCEPT ![p] = new_soc]
        /\ soc_history' = [soc_history EXCEPT ![p] = Append(@, battery_soc[p])]
        /\ lp_status' = [lp_status EXCEPT ![p] = r.status]
        /\ call' = [call EXCEPT ![p] =
                      [soc |-> battery_soc[p], demand |-> hpc_demand, wind |-> W, solar |-> S]]
        /\ ret' = [ret EXCEPT ![p] =
                     [grid |-> r.x.grid, wind_used |-> r.x.wind_used,
                      solar_used |-> r.x.solar_used,
                      battery_charge |-> r.x.battery_charge,
                      battery_discharge |-> r.x.battery_discharge,
                      soc |-> new_soc,
                      wind_curtail |-> W - r.x.wind_used,
                      solar_curtail |-> S - r.x.solar_used]]
        /\ UNCHANGED <<CONFIG, startup, wind, solar, solver>>

\* HybridPowerPlant.optimize_dispatch(hpc_demand, current_step); current_step
\* counts from 1 here and from 0 in the program.
optimize_dispatch(p, hpc_demand, current_step) ==
  LET W == wind[p][current_step]
      S == solar[p][current_step]
  IN  \E r \in {LPSolve(solver, battery_soc[p], hpc_demand, W, S)} :
      \E new_soc \in {NewSoc(battery_soc[p], r.x.battery_charge, r.x.battery_discharge)} :
        /\ battery_soc' = [battery_soc EXCEPT ![p] = new_soc]
        /\ soc_history' = [soc_history EXCEPT ![p] = Append(@, new_soc)]
        /\ lp_status' = [lp_status EXCEPT ![p] = r.status]
        /\ call' = [call EXCEPT ![p] =
                      [soc |-> battery_soc[p], demand |-> hpc_demand, wind |-> W, solar |-> S]]
        /\ ret' = [ret EXCEPT ![p] =
                     [grid |-> r.x.grid, wind_used |-> r.x.wind_used,
                      solar_used |-> r.x.solar_used,
                      battery_charge |-> r.x.battery_charge,
                      battery_discharge |-> r.x.battery_discharge,
                      soc |-> new_soc,
                      wind_curtail |-> W - r.x.wind_used,
                      solar_curtail |-> S - r.x.solar_used]]
        /\ UNCHANGED <<CONFIG, startup, wind, solar, solver>>

\* The caller of one plant: any demand and step index, at most MaxSteps calls,
\* changing the operating point (demand, wind, solar) at most MaxChanges times.
SameOperatingPoint(p, D, i) ==
  \/ Len(soc_history[p]) = 0
  \/ /\ call[p].demand = D
     /\ call[p].wind = wind[p][i]
     /\ call[p].solar = solar[p][i]

Dispatch(p) ==
  /\ UNCHANGED <<metricsVars, transVars, runVars>>
  /\ startup = "ok"
  /\ \E dMW \in DemandsMW, i \in 1..Len(wind[p]) :
    /\ Len(soc_history[p]) < MaxSteps
    /\ IF SameOperatingPoint(p, dMW * MW, i) THEN TRUE ELSE changes < MaxChanges
    /\ changes' = IF SameOperatingPoint(p, dMW * MW, i) THEN changes ELSE changes + 1
    /\ optimize_dispatch(p, dMW * MW, i)

\* ============================================================ PowerMetrics
\* Part 2: PowerMetrics (src/metrics.py), constructed with the DataCenterConfig
\* of src/data_center_config.py.
\*
\* Arithmetic.  Running energies are counted in units of 1/12 Wh (the energy of
\* 1 W over 300 s), so that power * duration_s / 3600 is exact for the records
\* below; emissions in units of 1/12000 kg; utilization in units of 1/10000.
GRID_EMISSIONS_FACTOR_KGCO2_MWH == 420
WIND_EMISSIONS_FACTOR_KGCO2_MWH == 11

Aggregators == {1, 2}

\* the keys of self.metrics, in the order update_metrics writes them, each
\* with the timestep_data key it accumulates
MetricOrder ==
  << <<"gpu_energy_wh", "gpu_power">>,
     <<"cpu_energy_wh", "cpu_power">>,
     <<"asic_energy_wh", "asic_power">>,
     <<"storage_energy_wh", "storage_power">>,
     <<"network_energy_wh", "network_power">>,
     <<"cooling_energy_wh", "cooling_power">>,
     <<"facility_overhead_wh", "facility_overhead">>,
     <<"wind_generated_wh", "wind_generated">>,
     <<"wind_delivered_wh", "wind_delivered">>,
     <<"grid_energy_wh", "grid_power">>,
     <<"transmission_losses_wh", "transmission_losses">>,
     <<"power_deficit_wh", "power_deficit">> >>
MetricKeys == {MetricOrder[i][1] : i \in 1..Len(MetricOrder)}
EmissionKeys == {"wind_emissions_kg", "grid_emissions_kg"}
\* timestep_data.get('facility_overhead', 0.0): the one key that may be absent
OptionalKeys == {"facility_overhead"}

\* k.replace('_wh', '_kwh')
KwhKey(k) ==
  CASE k = "gpu_energy_wh" -> "gpu_energy_kwh"
    [] k = "cpu_energy_wh" -> "cpu_energy_kwh"
    [] k = "asic_energy_wh" -> "asic_energy_kwh"
    [] k = "storage_energy_wh" -> "storage_energy_kwh"
    [] k = "network_energy_wh" -> "network_energy_kwh"
    [] k = "cooling_energy_wh" -> "cooling_energy_kwh"
    [] k = "facility_overhead_wh" -> "facility_overhead_kwh"
    [] k = "wind_generated_wh" -> "wind_generated_kwh"
    [] k = "wind_delivered_wh" -> "wind_delivered_kwh"
    [] k = "grid_energy_wh" -> "grid_energy_kwh"
    [] k = "transmission_losses_wh" -> "transmission_losses_kwh"
    [] OTHER -> "power_deficit_kwh"
KwhKeys == {KwhKey(k) : k \in MetricKeys}
SummaryKeys ==
  KwhKeys \cup {"wind_emissions_kg", "grid_emissions_kg", "avg_utilization", "total_energy_kwh"}

\* timestep_data records the model feeds: powers in W, duration_s in seconds,
\* utilization in 1/10000.  The first two have the keys main.py writes.
FullRecord(it, wind_gen, wind_del, grid, util) ==
  [gpu_power |-> 3 * it, cpu_power |-> it, asic_power |-> 2 * it,
   storage_power |-> 480, network_power |-> 360,
   cooling_power |-> it, facility_overhead |-> 120,
   wind_generated |-> wind_gen, wind_delivered |-> wind_del, grid_power |-> grid,
   transmission_losses |-> wind_gen - wind_del, power_deficit |-> 0,
   utilization |-> util, duration_s |-> 300]
Restrict(f, keys) == [k \in keys |-> f[k]]
TimestepRecords ==
  LET a == FullRecord(36000, 120000, 96000, 160960, 10000)
      b == FullRecord(30600, 0, 0, 214680, 8500)
  IN  {a, b,
       Restrict(b, DOMAIN b \ {"facility_overhead"}),
       Restrict(a, DOMAIN a \ {"asic_power"})}

Sum(f, keys) ==
  LET RECURSIVE S(_)
      S(ks) == IF ks = {} THEN 0 ELSE LET k == CHOOSE x \in ks : TRUE IN f[k] + S(ks \ {k})
  IN  S(keys)
SeqSum(q) ==
  LET RECURSIVE S(_)
      S(n) == IF n = 0 THEN 0 ELSE q[n] + S(n - 1)
  IN  S(Len(q))

\* round(n / q) to the nearest integer, ties to even, as Python's round()
Round(n, q) ==
  LET f == n \div q
      r == n % q
  IN  IF 2 * r < q THEN f
      ELSE IF 2 * r > q THEN f + 1
      ELSE IF f % 2 = 0 THEN f ELSE f + 1

\* PowerMetrics.__init__
MetricsInit ==
  /\ metrics = [m \in Aggregators |-> [k \in MetricKeys |-> 0]]
  /\ emissions = [m \in Aggregators |-> [k \in EmissionKeys |-> 0]]
  /\ utilization_samples = [m \in Aggregators |-> <<>>]
  /\ raised = [m \in Aggregators |-> "none"]
  /\ summary = [m \in Aggregators |-> [k \in SummaryKeys |-> 0]]
  /\ reads = [m \in Aggregators |-> 0]

\* PowerMetrics.update_metrics(timestep_data).  The statements run in order and
\* the first read of a key that timestep_data lacks raises KeyError, leaving
\* the totals written before it in place.
EnergyDrop(data, key) == 0 - ((data[key] * data.duration_s) \div 300)
Energy(data, key) == (data[key] * data.duration_s) \div 300
\* number of the entries of MetricOrder written before the first missing key
Written(data) ==
  LET missing == {i \in 1..Len(MetricOrder) :
                    MetricOrder[i][2] \notin DOMAIN data /\ MetricOrder[i][2] \notin OptionalKeys}
  IN  IF "duration_s" \notin DOMAIN data THEN 0
      ELSE IF missing = {} THEN Len(MetricOrder)
      ELSE (CHOOSE i \in missing : \A j \in missing : i <= j) - 1
update_metrics(m, data) ==
  LET n == Written(data)
      complete == n = Len(MetricOrder)
      add(k) ==
        LET i == CHOOSE j \in 1..Len(MetricOrder) : MetricOrder[j][1] = k
        IN  IF i <= n /\ MetricOrder[i][2] \in DOMAIN data
              THEN Energy(data, MetricOrder[i][2]) ELSE 0
  IN  /\ metrics' = [metrics EXCEPT ![m] = [k \in MetricKeys |-> @[k] + add(k)]]
      /\ emissions' =
           IF complete
             THEN [emissions EXCEPT
                     ![m]["wind_emissions_kg"] =
                        @ + Energy(data, "wind_delivered") * WIND_EMISSIONS_FACTOR_KGCO2_MWH,
                     ![m]["grid_emissions_kg"] =
                        @ + Energy(data, "grid_power") * GRID_EMISSIONS_FACTOR_KGCO2_MWH]
             ELSE emissions
      /\ utilization_samples' =
           IF complete /\ "utilization" \in DOMAIN data
             THEN [utilization_samples EXCEPT ![m] = Append(@, data.utilization)]
             ELSE utilization_samples
      /\ raised' = [raised EXCEPT ![m] =
                      IF complete /\ "utilization" \in DOMAIN data THEN "none" ELSE "KeyError"]
      /\ reads' = [reads EXCEPT ![m] = 0]
      /\ UNCHANGED summary

\* get_summary reporting the latest utilization sample in place of the mean
SummaryOfLatest(m) ==
  LET kwh == [k \in KwhKeys |->
                Round(metrics[m][CHOOSE w \in MetricKeys : KwhKey(w) = k], 120)]
  IN  [k \in SummaryKeys |->
         CASE k \in KwhKeys -> kwh[k]
           [] k = "wind_emissions_kg" -> Round(emissions[m]["wind_emissions_kg"], 120)
           [] k = "grid_emissions_kg" -> Round(emissions[m]["grid_emissions_kg"], 120)
           [] k = "avg_utilization" ->
                IF utilization_samples[m] # <<>>
                  THEN utilization_samples[m][Len(utilization_samples[m])]
                  ELSE 0
           [] OTHER -> Sum(kwh, KwhKeys)]
\* PowerMetrics.get_summary(): the dict it returns, values in 1/100 kWh,
\* 1/100 kg and 1/10000.
SummaryOf(m) ==
  LET kwh == [k \in KwhKeys |->
                Round(metrics[m][CHOOSE w \in MetricKeys : KwhKey(w) = k], 120)]
  IN  [k \in SummaryKeys |->
         CASE k \in KwhKeys -> kwh[k]
           [] k = "wind_emissions_kg" -> Round(emissions[m]["wind_emissions_kg"], 120)
           [] k = "grid_emissions_kg" -> Round(emissions[m]["grid_emissions_kg"], 120)
           [] k = "avg_utilization" ->
                IF utilization_samples[m] # <<>>
                  THEN Round(SeqSum(utilization_samples[m]), Len(utilization_samples[m]))
                  ELSE 0
           [] OTHER -> Sum(kwh, KwhKeys)]
get_summary_in_place(m) ==
  /\ summary' = [summary EXCEPT ![m] = SummaryOf(m)]
  /\ metrics' = [metrics EXCEPT ![m] = [k \in MetricKeys |-> Round(@[k], 1000)]]
  /\ reads' = [reads EXCEPT ![m] = @ + 1]
  /\ UNCHANGED <<emissions, utilization_samples, raised>>
get_summary(m) ==
  /\ summary' = [summary EXCEPT ![m] = SummaryOf(m)]
  /\ reads' = [reads EXCEPT ![m] = @ + 1]
  /\ UNCHANGED <<metrics, emissions, utilization_samples, raised>>

\* The caller of one PowerMetrics; an uncaught KeyError ends its run.
Update(m) ==
  /\ UNCHANGED <<hppVars, transVars, runVars>>
  /\ Len(utilization_samples[m]) < MaxUpdates
  /\ raised[m] = "none"
  /\ \E data \in TimestepRecords : update_metrics(m, data)
Read(m) ==
  /\ UNCHANGED <<hppVars, transVars, runVars>>
  /\ reads[m] < MaxReads
  /\ raised[m] = "none"
  /\ get_summary(m)

\* =================================================== PowerSystem, WindFarm
\* Part 3: transmission (PowerSystem of src/main.py) and generation (WindFarm
\* of src/wind_farm.py).
\*
\* Arithmetic.  Powers are in units of 10 kW (1/100 MW), distances in km and
\* voltages in units of 0.5 kV (34.5 kV is 69).  The resistivity 1.68e-8 Ohm m
\* is 42 units of 4e-10 and the conductor area 500e-6 m^2 is 5 units of 1e-4,
\* so that for a power p
\*   loss = (p * 1e6 / V)^2 * (rho * d * 1000 / area) / 1e6
\*        = 2 * rho * p^2 * d  /  (125 * area * voltage^2 * 100)
\* exactly, in the same unit.  A loss is kept as its numerator over this
\* denominator, which is fixed by the object, so that the losses of one object
\* compare exactly; where a loss is subtracted from a power it is rounded down
\* to the unit (LossUnits).
PowerInputs == {-1, 0, 1, 50, 100}
DistancesKm == {0, 1000, 2000}
VoltagesHalfKV == {10, 69, 480}
TRANSMISSION_DISTANCE_KM == 1000
DEFAULT_VOLTAGE_HALF_KV == 480
TRANSMISSION_VOLTAGE_HALF_KV == 69

\* PowerSystem.__init__(distance_km, voltage)
PowerSystem(distance_km, voltage) ==
  [distance |-> distance_km, voltage |-> voltage, rho_cu |-> 42, cable_area |-> 5]

\* a loss numerator as whole power units
LossUnits(numerator, area, voltage) ==
  (numerator \div (125 * area * 100)) \div (voltage * voltage)

\* PowerSystem.transmission_loss(power_MW): the numerator of the loss
transmission_loss_flat(ps, power_MW) ==
  IF power_MW <= 0 THEN 0
  ELSE 2 * ps.rho_cu * power_MW * power_MW
transmission_loss(ps, power_MW) ==
  IF power_MW <= 0 THEN 0
  ELSE 2 * ps.rho_cu * power_MW * power_MW * ps.distance

\* PowerSystem.net_power(generated_MW)
net_power_unclamped(ps, generated_MW) ==
  generated_MW
    - LossUnits(transmission_loss(ps, generated_MW), ps.cable_area, ps.voltage)
net_power(ps, generated_MW) ==
  Max(generated_MW
        - LossUnits(transmission_loss(ps, generated_MW), ps.cable_area, ps.voltage),
      0)

\* generate_distance_analysis: one temporary PowerSystem per distance of
\* np.linspace(100, 2000, 20), each asked for the loss of avg_wind_output
AnalysisDistances == [k \in 1..20 |-> 100 * k]
generate_distance_analysis(avg_wind_output) ==
  [k \in 1..20 |->
     transmission_loss(PowerSystem(AnalysisDistances[k], DEFAULT_VOLTAGE_HALF_KV),
                       avg_wind_output)]

NoPSCall == [op |-> "none", power |-> 0, loss |-> 0, value |-> 0]
NoAnalysis == [power |-> 0, losses |-> <<>>]

\* the callers of the PowerSystem object
TransmissionLossCall ==
  \E p \in PowerInputs :
    /\ ps_ret' = [op |-> "transmission_loss", power |-> p,
                  loss |-> transmission_loss(power_system, p),
                  value |-> transmission_loss(power_system, p)]
    /\ UNCHANGED <<power_system, analysis, wind_farm, wf_ret>>
NetPowerCall ==
  \E g \in PowerInputs :
    /\ ps_ret' = [op |-> "net_power", power |-> g,
                  loss |-> transmission_loss(power_system, g),
                  value |-> net_power(power_system, g)]
    /\ UNCHANGED <<power_system, analysis, wind_farm, wf_ret>>
DistanceAnalysis ==
  \E p \in PowerInputs :
    /\ analysis' = [power |-> p, losses |-> generate_distance_analysis(p)]
    /\ UNCHANGED <<power_system, ps_ret, wind_farm, wf_ret>>

\* ------------------------------------------------------------------ WindFarm
\* Powers of the wind farm are in units of 10 kW, wind speeds in
\* units of 0.5 m/s (the rated 11.5 m/s is 23), the rotor radius in units of
\* 25 m (the default 75 m is 3) and the capacity factor in 1/1000.  Quantities
\* the program holds as floats are rounded down to the unit.
WIND_FARM_RATED_CAPACITY == 350
DEFAULT_ROTOR_RADIUS == 3
DEFAULT_WIND_VOLTAGE_HALF_KV == 1000
ALBERTA_CF == 345
RATED_SPEED == 23
Capacities == {0, WIND_FARM_RATED_CAPACITY}
RotorRadii == {-3, 0, 3}
WindPowerInputs == {0, 1, 100}
LossDistancesKm == {100, 1000, 2000}
OutputDistancesKm == {0, 100, 1000}
TimesMin == {60 * h : h \in 0..47}

\* WindFarm.__init__(capacity_MW, rotor_radius_m, transmission_voltage_kV), region Alberta
WindFarm(capacity_MW, rotor_radius_m, transmission_voltage_kV) ==
  [capacity_MW |-> capacity_MW, rotor_radius |-> rotor_radius_m, cf |-> ALBERTA_CF,
   transmission_voltage |-> transmission_voltage_kV,
   conductor_resistivity |-> 42, conductor_area |-> 5]

\* WindFarm._transmission_loss(power_MW, distance_km): the numerator of the
\* loss; the factor 3 of the three phases cancels the sqrt(3)^2 of the phase
\* current
WindFarm_transmission_loss(wf, power_MW, distance_km) ==
  2 * wf.conductor_resistivity * power_MW * power_MW * distance_km

\* WindFarm._turbine_power(wind_speed), in units of
\* 0.5 * air_density * pi * 625 * betz * mechanical * converter / 8e6 MW
turbine_power(wf, wind_speed) ==
  wf.rotor_radius * wf.rotor_radius * wind_speed * wind_speed * wind_speed

\* effective_speed of realistic_output at each hour of the day: the cubic
\* interpolation of base_wind_speeds at time_h % 24 plus the turbulence term
\* base_speed * 0.1 * sin(2 pi time_h / 12), to the nearest 0.5 m/s
EffectiveSpeeds ==
  <<13, 14, 15, 15, 14, 13, 12, 12, 12, 13, 14, 16,
    17, 18, 19, 19, 19, 17, 16, 15, 13, 13, 12, 12>>
effective_speed(time_min) == Max(EffectiveSpeeds[((time_min \div 60) % 24) + 1], 0)

\* realistic_output without the capacity factor constraint
realistic_output_unclamped(wf, time_min, distance_km) ==
  IF turbine_power(wf, RATED_SPEED) = 0
    THEN [status |-> "ZeroDivisionError", value |-> 0]
    ELSE LET raw_power == (turbine_power(wf, effective_speed(time_min)) * wf.capacity_MW)
                            \div turbine_power(wf, RATED_SPEED)
             losses == LossUnits(WindFarm_transmission_loss(wf, raw_power, distance_km),
                                 wf.conductor_area, wf.transmission_voltage)
         IN  [status |-> "ok", value |-> Max(raw_power - losses, 0)]
\* realistic_output applying the capacity factor as a ratio to the capacity
realistic_output_ratio(wf, time_min, distance_km) ==
  IF turbine_power(wf, RATED_SPEED) = 0 \/ wf.capacity_MW = 0
    THEN [status |-> "ZeroDivisionError", value |-> 0]
    ELSE LET raw_power == (turbine_power(wf, effective_speed(time_min)) * wf.capacity_MW)
                            \div turbine_power(wf, RATED_SPEED)
             limited_power == IF raw_power * 1000 > wf.cf * wf.capacity_MW
                                THEN (wf.capacity_MW * wf.cf) \div 1000 ELSE raw_power
             losses == LossUnits(WindFarm_transmission_loss(wf, limited_power, distance_km),
                                 wf.conductor_area, wf.transmission_voltage)
         IN  [status |-> "ok", value |-> Max(limited_power - losses, 0)]
\* WindFarm.realistic_output(time_h, distance_km); time in minutes.  The
\* division capacity_MW / _turbine_power(11.5) of two Python floats raises
\* ZeroDivisionError when the divisor is 0.0.
realistic_output(wf, time_min, distance_km) ==
  IF turbine_power(wf, RATED_SPEED) = 0
    THEN [status |-> "ZeroDivisionError", value |-> 0]
    ELSE LET raw_power == (turbine_power(wf, effective_speed(time_min)) * wf.capacity_MW)
                            \div turbine_power(wf, RATED_SPEED)
             cf_limit == (wf.capacity_MW * wf.cf) \div 1000
             limited_power == Min(raw_power, cf_limit)
             losses == LossUnits(WindFarm_transmission_loss(wf, limited_power, distance_km),
                                 wf.conductor_area, wf.transmission_voltage)
         IN  [status |-> "ok", value |-> Max(limited_power - losses, 0)]

NoWFCall == [op |-> "none", time |-> 0, distance |-> 0, power |-> 0,
             status |-> "ok", value |-> 0]

\* the callers of the WindFarm object
RealisticOutputCall ==
  \E t \in TimesMin, d \in OutputDistancesKm :
    \E r \in {realistic_output(wind_farm, t, d)} :
      /\ wf_ret' = [op |-> "realistic_output", time |-> t, distance |-> d, power |-> 0,
                    status |-> r.status, value |-> r.value]
      /\ UNCHANGED <<power_system, ps_ret, analysis, wind_farm>>
WindLossCall ==
  \E p \in WindPowerInputs, d \in LossDistancesKm :
    /\ wf_ret' = [op |-> "_transmission_loss", time |-> 0, distance |-> d, power |-> p,
                  status |-> "ok",
                  value |-> WindFarm_transmission_loss(wind_farm, p, d)]
    /\ UNCHANGED <<power_system, ps_ret, analysis, wind_farm>>

\* construction as main.py does it (EnhancedHybridSimulation.__init__)
TransInit ==
  /\ power_system = PowerSystem(TRANSMISSION_DISTANCE_KM, TRANSMISSION_VOLTAGE_HALF_KV)
  /\ ps_ret = NoPSCall
  /\ analysis = NoAnalysis
  /\ wind_farm = WindFarm(WIND_FARM_RATED_CAPACITY, DEFAULT_ROTOR_RADIUS,
                          DEFAULT_WIND_VOLTAGE_HALF_KV)
  /\ wf_ret = NoWFCall

\* ================================================ EnhancedHybridSimulation
\* Part 4: the simulation loop of src/main.py with the load model of
\* src/power_module.py.  Loads are in W, wind powers are converted from the
\* 10 kW unit to W, utilization is in 1/10000.
\* data_center_config.py sets the same 5 minute TIME_STEP_MINUTES as
\* datacenter_config.py.
SIMULATION_DURATION_HOURS == 24
SIMULATION_STEPS == (SIMULATION_DURATION_HOURS * 60) \div TIME_STEP_MINUTES

\* generate_utilization_pattern(config, 'diurnal', min_util=0.85, max_util=1.0)
\* at each hour of the day: 0.85 + 0.15 * (0.5 + 0.5 sin(2 pi (hour - 14) / 24))
DiurnalUtilization ==
  <<9625, 9444, 9250, 9056, 8875, 8720, 8600, 8526, 8500, 8526, 8600, 8720,
    8875, 9056, 9250, 9444, 9625, 9780, 9900, 9974, 10000, 9974, 9900, 9780>>
utilization(i) == DiurnalUtilization[(((i * TIME_STEP_MINUTES) \div 60) % 24) + 1]

\* calculate_compute_power(config, utilization): 1500 GPU nodes of 2000 W,
\* 400 CPU nodes of 600 W, 625 ASIC units of 3200 W, 160 storage nodes of
\* 150 W, 120 network nodes of 100 W
calculate_compute_power(u) ==
  [gpu_power |-> ((1500 * 2000) \div 10000) * u,
   cpu_power |-> ((400 * 600) \div 10000) * u,
   asic_power |-> ((625 * 3200) \div 10000) * u,
   storage_power |-> 160 * 150,
   network_power |-> 120 * 100]

\* calculate_total_power(compute_powers, config): design PUE 1.22, overhead 2 %
calculate_total_power(cp) ==
  LET it_power == cp.gpu_power + cp.cpu_power + cp.asic_power
                    + cp.storage_power + cp.network_power
      cooling_power == (it_power * 22) \div 100
      facility_overhead == (it_power * 2) \div 100
  IN  [it_power |-> it_power, cooling_power |-> cooling_power,
       facility_overhead |-> facility_overhead,
       total_power |-> it_power + cooling_power + facility_overhead]

\* current_time.isoformat() of start_time (2025-05-21) + t minutes
isoformat(t) == [day |-> 21 + (t \div 1440), hour |-> (t \div 60) % 24, minute |-> t % 60]

\* for step in range(self.config.simulation_steps)
InRangeShort(i) == i + 1 < SIMULATION_STEPS
InRange(i) == i < SIMULATION_STEPS

\* calculate_grid_and_wind_power(total_power, wind_delivered) of power_module.py,
\* powers in W: the tuple (wind_used, grid_power, deficit) it returns
calculate_grid_and_wind_power_unfloored(total_power, wind_delivered) ==
  LET wind_used == Min(total_power, wind_delivered)
      grid_power == total_power - wind_delivered
      deficit == Max(total_power - (wind_delivered + grid_power), 0)
  IN  [wind_used |-> wind_used, grid_power |-> grid_power, deficit |-> deficit]
calculate_grid_and_wind_power(total_power, wind_delivered) ==
  LET wind_used == Min(total_power, wind_delivered)
      grid_power == Max(total_power - wind_delivered, 0)
      deficit == Max(total_power - (wind_delivered + grid_power), 0)
  IN  [wind_used |-> wind_used, grid_power |-> grid_power, deficit |-> deficit]
TotalPowersW == {0, 5000000}
WindDeliveredW == {0, 620000, 8000000}
NoGWCall ==
  [op |-> "none", total_power |-> 0, wind_delivered |-> 0,
   wind_used |-> 0, grid_power |-> 0, deficit |-> 0]
GridAndWindCall ==
  /\ \E t \in TotalPowersW, w \in WindDeliveredW :
       \E r \in {calculate_grid_and_wind_power(t, w)} :
         gw_ret' = [op |-> "calculate_grid_and_wind_power", total_power |-> t,
                    wind_delivered |-> w, wind_used |-> r.wind_used,
                    grid_power |-> r.grid_power, deficit |-> r.deficit]
  /\ UNCHANGED <<step, current_time, timesteps, power_data, run_pc>>

RunInit ==
  /\ step = 0
  /\ current_time = 0
  /\ timesteps = <<>>
  /\ power_data = <<>>
  /\ run_pc = "loop"
  /\ gw_ret = NoGWCall

\* one iteration of the loop of EnhancedHybridSimulation.run
run_iteration ==
  /\ run_pc = "loop"
  /\ InRange(step)
  /\ LET compute_power == calculate_compute_power(utilization(step))
         total_power == calculate_total_power(compute_power)
         hour == (current_time \div 60) % 24
         minute == current_time % 60
         wind_generated ==
           realistic_output(wind_farm, hour * 60 + minute, power_system.distance).value * 10000
         wind_delivered == net_power(power_system, wind_generated \div 10000) * 10000
         grid_power == Max(total_power.total_power - wind_delivered, 0)
         power_deficit == Max(total_power.total_power - (wind_delivered + grid_power), 0)
     IN  /\ timesteps' = Append(timesteps, isoformat(current_time))
         /\ power_data' = Append(power_data,
              [duration_s |-> TIME_STEP_MINUTES * 60,
               total_power |-> total_power.total_power,
               wind_generated |-> wind_generated,
               wind_delivered |-> wind_delivered,
               grid_power |-> grid_power,
               transmission_losses |-> wind_generated - wind_delivered,
               power_deficit |-> power_deficit,
               utilization |->
                 Min(10000, (((wind_delivered + grid_power) \div 1000) * 10000)
                              \div (total_power.total_power \div 1000)),
               gpu_power |-> compute_power.gpu_power,
               cpu_power |-> compute_power.cpu_power,
               asic_power |-> compute_power.asic_power,
               storage_power |-> compute_power.storage_power,
               network_power |-> compute_power.network_power,
               cooling_power |-> total_power.cooling_power,
               facility_overhead |-> total_power.facility_overhead])
  /\ current_time' = current_time + TIME_STEP_MINUTES
  /\ step' = step + 1
  /\ UNCHANGED <<run_pc, gw_ret>>
\* return timesteps, power_data
run_return ==
  /\ run_pc = "loop"
  /\ ~InRange(step)
  /\ run_pc' = "returned"
  /\ UNCHANGED <<step, current_time, timesteps, power_data, gw_ret>>

\* main(): after simulation.run() returns,
\*   metrics = PowerMetrics(config); for ts in power_data: metrics.update_metrics(ts)
\* One step is one iteration of that loop on aggregator 1; the loop has consumed
\* as many records as the aggregator holds samples.  The record is handed over
\* with its powers in kW, so that the totals of a whole day stay within machine
\* integers (update_metrics is linear in the powers).
PowerKeys == DOMAIN FullRecord(0, 0, 0, 0, 0) \ {"utilization", "duration_s"}
InKilowatts(ts) ==
  [k \in DOMAIN ts |-> IF k \in PowerKeys \cup {"total_power"} THEN ts[k] \div 1000 ELSE ts[k]]
main_update_metrics ==
  /\ run_pc = "returned"
  /\ raised[1] = "none"
  /\ Len(utilization_samples[1]) < Len(power_data)
  /\ update_metrics(1, InKilowatts(power_data[Len(utilization_samples[1]) + 1]))
  /\ UNCHANGED <<hppVars, transVars, runVars>>

\* ========================================================= specifications
Init == ConfigInit /\ HPPInit /\ MetricsInit /\ TransInit /\ RunInit
Next == Dispatch(1)
Spec == Init /\ [][Next]_vars

\* the plant under a load that changes its operating point (demand or step
\* index) at most MaxSwitches times
SwitchDispatch(p) ==
  /\ UNCHANGED <<metricsVars, transVars, runVars>>
  /\ startup = "ok"
  /\ \E dMW \in DemandsMW, i \in 1..Len(wind[p]) :
    /\ Len(soc_history[p]) < MaxSteps
    /\ IF SameOperatingPoint(p, dMW * MW, i) THEN TRUE ELSE changes < MaxSwitches
    /\ changes' = IF SameOperatingPoint(p, dMW * MW, i) THEN changes ELSE changes + 1
    /\ optimize_dispatch(p, dMW * MW, i)
SwitchNext == SwitchDispatch(1)
SwitchSpec == Init /\ [][SwitchNext]_vars

MetricsNext == Update(1) \/ Read(1)
MetricsSpec == Init /\ [][MetricsNext]_vars

\* EnhancedHybridSimulation.run, which the interpreter runs to its return
RunNext ==
  /\ UNCHANGED <<hppVars, metricsVars, transVars>>
  /\ \/ run_iteration
     \/ run_return
RunSpec == Init /\ [][RunNext]_vars /\ WF_vars(RunNext)

\* the wind/grid simulation and the power module's helper side by side
PowerNext ==
  /\ UNCHANGED <<hppVars, metricsVars, transVars>>
  /\ \/ run_iteration
     \/ run_return
     \/ GridAndWindCall
PowerSpec == Init /\ [][PowerNext]_vars

\* main(): the run, then the metrics loop over its power_data
MainNext ==
  \/ RunNext
  \/ main_update_metrics
MainSpec == Init /\ [][MainNext]_vars

\* one PowerMetrics fed records that carry every key update_metrics reads,
\* as the records of run's power_data do
AcceptedRecords == {d \in TimestepRecords : Written(d) = Len(MetricOrder)}
Accumulate(m) ==
  /\ UNCHANGED <<hppVars, transVars, runVars>>
  /\ Len(utilization_samples[m]) < MaxUpdates
  /\ \E data \in AcceptedRecords : update_metrics(m, data)
AccumulateNext == Accumulate(1)
AccumulateSpec == Init /\ [][AccumulateNext]_vars

\* two plants and two aggregators side by side, their calls interleaved
PairRecords == {d \in TimestepRecords : DOMAIN d = DOMAIN FullRecord(0, 0, 0, 0, 0)}
PairCalls == {<<0, 2>>, <<9, 1>>}      \* (hpc_demand in MW, current_step)
PairDispatch(p) ==
  /\ UNCHANGED <<metricsVars, transVars, runVars, changes>>
  /\ startup = "ok"
  /\ Len(soc_history[p]) < MaxPairSteps
  /\ \E c \in PairCalls : optimize_dispatch(p, c[1] * MW, c[2])
PairUpdate(m) ==
  /\ UNCHANGED <<hppVars, transVars, runVars>>
  /\ Len(utilization_samples[m]) < MaxPairUpdates
  /\ \E data \in PairRecords : update_metrics(m, data)
PairNext ==
  \/ \E p \in Plants : PairDispatch(p)
  \/ \E m \in Aggregators : PairUpdate(m)
PairSpec == Init /\ [][PairNext]_vars

\* the plant under any values of the configuration constants
Configurations ==
  {HPPConfig(BATTERY_CAPACITY_MWH, MIN_SOC_PCT, TIME_STEP_MINUTES),
   HPPConfig(-BATTERY_CAPACITY_MWH, MIN_SOC_PCT, TIME_STEP_MINUTES),
   HPPConfig(BATTERY_CAPACITY_MWH, 150, TIME_STEP_MINUTES),
   HPPConfig(BATTERY_CAPACITY_MWH, MIN_SOC_PCT, 0)}
AnyConfigInit ==
  /\ CONFIG \in Configurations
  /\ startup = ImportStatus(CONFIG)
  /\ HPPInit /\ MetricsInit /\ TransInit /\ RunInit
ConfigSpec == AnyConfigInit /\ [][Next]_vars

\* every PowerSystem the constructor arguments allow, under its callers
TransmissionInit ==
  /\ ConfigInit /\ HPPInit /\ MetricsInit /\ RunInit
  /\ \E d \in DistancesKm, v \in VoltagesHalfKV : power_system = PowerSystem(d, v)
  /\ ps_ret = NoPSCall
  /\ analysis = NoAnalysis
  /\ wind_farm = WindFarm(WIND_FARM_RATED_CAPACITY, DEFAULT_ROTOR_RADIUS,
                          DEFAULT_WIND_VOLTAGE_HALF_KV)
  /\ wf_ret = NoWFCall
TransmissionNext ==
  /\ UNCHANGED <<hppVars, metricsVars, runVars>>
  /\ \/ TransmissionLossCall
     \/ NetPowerCall
     \/ DistanceAnalysis
     \/ WindLossCall
TransmissionSpec == TransmissionInit /\ [][TransmissionNext]_vars

\* wind farms as the program builds them: WindFarm(capacity_MW=...), every
\* other argument at its default
WindInit ==
  /\ ConfigInit /\ HPPInit /\ MetricsInit /\ RunInit
  /\ power_system = PowerSystem(TRANSMISSION_DISTANCE_KM, TRANSMISSION_VOLTAGE_HALF_KV)
  /\ ps_ret = NoPSCall
  /\ analysis = NoAnalysis
  /\ \E c \in Capacities :
       wind_farm = WindFarm(c, DEFAULT_ROTOR_RADIUS, DEFAULT_WIND_VOLTAGE_HALF_KV)
  /\ wf_ret = NoWFCall
WindNext ==
  /\ UNCHANGED <<hppVars, metricsVars, runVars>>
  /\ \/ RealisticOutputCall
     \/ WindLossCall
WindSpec == WindInit /\ [][WindNext]_vars

\* wind farms built with any rotor radius
RotorInit ==
  /\ ConfigInit /\ HPPInit /\ MetricsInit /\ RunInit
  /\ power_system = PowerSystem(TRANSMISSION_DISTANCE_KM, TRANSMISSION_VOLTAGE_HALF_KV)
  /\ ps_ret = NoPSCall
  /\ analysis = NoAnalysis
  /\ \E c \in Capacities, r \in RotorRadii :
       wind_farm = WindFarm(c, r, DEFAULT_WIND_VOLTAGE_HALF_KV)
  /\ wf_ret = NoWFCall
RotorSpec == RotorInit /\ [][WindNext]_vars

\* ================================================================ claims
\* Plant 1 is the plant that Spec drives.
Stepped(p) == Len(soc_history[p]) > 0
Optimal(p) == Stepped(p) /\ lp_status[p] = "Optimal"

\* C1: after any sequence of optimize_dispatch steps from the initial state the
\* stored battery_soc lies in [min_soc * capacity, capacity].
C1_SocInRange ==
  \A p \in Plants : MinSocLevel <= battery_soc[p] /\ battery_soc[p] <= Capacity

\* C2: every decision returned by optimize_dispatch satisfies the power
\* balance grid + wind_used + solar_used + discharge - charge >= hpc_demand.
C2_PowerBalance ==
  \A p \in Plants : Stepped(p) => BalanceOK(ret[p], call[p].demand)

\* C3: every returned decision respects the box bounds of the five decision
\* variables, so that both curtailments are non-negative.
C3_BoxBounds ==
  \A p \in Plants :
    Stepped(p) => /\ BoxOK(ret[p], call[p].wind, call[p].solar)
                  /\ ret[p].wind_curtail >= 0
                  /\ ret[p].solar_curtail >= 0

\* C4: a step whose LP has no feasible point ends in an explicit failure and
\* the run aborts: that step returns no decision and writes no SOC, and no
\* later step runs on the plant.
C4_InfeasibleAborts ==
  [][\A p \in Plants :
       lp_status'[p] = "Infeasible" =>
         /\ ret'[p] = ret[p]
         /\ battery_soc'[p] = battery_soc[p]
         /\ soc_history'[p] = soc_history[p]]_vars

\* C5: a step advances the SOC by exactly
\*   (battery_charge * efficiency - battery_discharge / efficiency) * (time_step_mins / 60)
\* with the charge and discharge of the returned decision (written here
\* multiplied through by MW * EffN * EffD * StepsPerHour); from 7.5 MWh with
\* charge 3 MW and discharge 0 the new SOC is 7.73 MWh; and the decision's
\* 'soc' is the stored battery_soc.
C5_SocRecurrence ==
  \A p \in Plants :
    Stepped(p) =>
      /\ (ret[p].soc - call[p].soc) * MW =
           ret[p].battery_charge * EffN * EffN - ret[p].battery_discharge * EffD * EffD
      /\ ret[p].soc = battery_soc[p]
      /\ (/\ call[p].soc * 100 = 750 * MWh
          /\ ret[p].battery_charge = 3 * MW
          /\ ret[p].battery_discharge = 0) => ret[p].soc * 100 = 773 * MWh
C5_Witness ==
  /\ Stepped(1)
  /\ call[1].soc * 100 = 750 * MWh
  /\ ret[1].battery_charge = 3 * MW
  /\ ret[1].battery_discharge = 0

\* C6: in a feasible step with no wind, no solar and an inactive battery the
\* grid import equals hpc_demand exactly.
C6_GridEqualsDemand ==
  \A p \in Plants :
    (/\ Optimal(p)
     /\ call[p].wind = 0 /\ call[p].solar = 0
     /\ ret[p].battery_charge = 0 /\ ret[p].battery_discharge = 0)
    => ret[p].grid = call[p].demand
C6_Witness ==
  /\ Optimal(1)
  /\ call[1].wind = 0 /\ call[1].solar = 0
  /\ ret[1].battery_charge = 0 /\ ret[1].battery_discharge = 0
  /\ call[1].demand > 0

\* C7: in a step with hpc_demand = 0, wind available and a full battery, the
\* decision curtails all the wind and imports nothing.
C7_FullCurtailment ==
  \A p \in Plants :
    (/\ Optimal(p)
     /\ call[p].demand = 0 /\ call[p].wind > 0 /\ call[p].soc = Capacity)
    => /\ ret[p].wind_used = 0
       /\ ret[p].wind_curtail = call[p].wind
       /\ ret[p].grid = 0

\* C8: the decision of a feasible step minimises
\*   grid * energy_price + curtailment_penalty * (wind_curtail + solar_curtail)
\* over the decisions that satisfy the box bounds, the balance and the SOC
\* bounds.  The decisions compared with are every basic solution the model
\* knows and every corner of the box.
Curtailed(x, W, S) == (W - x.wind_used) + (S - x.solar_used)
\* cost(x) <= cost(y) with the claim's weights 0.12 and 1000 (3 : 25000),
\* evaluated without leaving machine integers
SpecCostLeq(x, y, W, S) ==
  LET dg == (GRID_ENERGY_PRICE_CENTS \div 4) * (x.grid - y.grid)
      dc == Curtailed(y, W, S) - Curtailed(x, W, S)
  IN  IF dc >= 2000 THEN TRUE
      ELSE IF dc <= 0 - 2000 THEN FALSE
      ELSE dg <= ((PENALTY_COST_CURTAILMENT * 100) \div 4) * dc
BoxCorners(W, S) ==
  {Point(g, w, s, c, d) : g \in {0, MaxImport}, w \in {0, W}, s \in {0, S},
                          c \in {0, MaxCharge}, d \in {0, MaxCharge}}
ReferencePoints(soc, D, W, S) ==
  BoxCorners(W, S) \cup UNION {Candidates(m, soc, D, W, S) : m \in TiePolicies}
C8_MinimalCost ==
  \A p \in Plants :
    Optimal(p) =>
      \A y \in ReferencePoints(call[p].soc, call[p].demand, call[p].wind, call[p].solar) :
        Constraints(call[p].soc, call[p].demand, call[p].wind, call[p].solar, y)
          => SpecCostLeq(ret[p], y, call[p].wind, call[p].solar)
C8_Witness ==
  /\ Optimal(1)
  /\ ret[1].grid > 0 /\ call[1].wind > 0 /\ call[1].solar > 0
  /\ \E y \in BoxCorners(call[1].wind, call[1].solar) :
       /\ Constraints(call[1].soc, call[1].demand, call[1].wind, call[1].solar, y)
       /\ ~SpecCostLeq(y, ret[1], call[1].wind, call[1].solar)

C10_SummaryIdempotent ==
  [][\A m \in Aggregators :
       reads'[m] = reads[m] + 1 =>
         /\ metrics'[m] = metrics[m]
         /\ emissions'[m] = emissions[m]
         /\ utilization_samples'[m] = utilization_samples[m]
         /\ reads[m] >= 1 => summary'[m] = summary[m]]_vars
C10_Witness ==
  /\ reads[1] >= 2
  /\ Len(utilization_samples[1]) >= 2
  /\ summary[1]["total_energy_kwh"] > 0

\* C11: get_summary's total_energy_kwh is the sum of the tracked category
\* energies with no energy counted twice: the energy the consumers drew is
\* added once, and not again as the supply (wind, grid) that delivered it.
ConsumptionKwhKeys ==
  {"gpu_energy_kwh", "cpu_energy_kwh", "asic_energy_kwh", "storage_energy_kwh",
   "network_energy_kwh", "cooling_energy_kwh", "facility_overhead_kwh"}
C11_NoDoubleCounting ==
  \A m \in Aggregators :
    reads[m] >= 1 =>
      summary[m]["total_energy_kwh"] = Sum(summary[m], ConsumptionKwhKeys)

\* C12: get_summary never divides by zero: with no utilization sample it
\* reports avg_utilization 0, and with samples their arithmetic mean (to the
\* four decimal places it rounds to).
C12_AvgUtilization ==
  \A m \in Aggregators :
    reads[m] >= 1 =>
      LET n == Len(utilization_samples[m])
          total == SeqSum(utilization_samples[m])
          avg == summary[m]["avg_utilization"]
      IN  /\ raised[m] = "none"
          /\ n = 0 => avg = 0
          /\ n > 0 => /\ 2 * (avg * n - total) <= n
                      /\ 2 * (total - avg * n) <= n
C12_Witness ==
  /\ reads[1] >= 1
  /\ utilization_samples[1] = <<>>
  /\ summary[1]["avg_utilization"] = 0

\* C13: the transmission loss grows strictly with the distance at a fixed
\* power: loss(p, 100) < loss(p, 1000) < loss(p, 2000), for the losses
\* generate_distance_analysis collects from PowerSystem.transmission_loss and
\* for successive calls of WindFarm._transmission_loss.  As claimed, for every
\* power >= 0:
AnalysisIncreasing(powers) ==
  (analysis.losses # <<>> /\ analysis.power \in powers) =>
     /\ analysis.losses[1] < analysis.losses[10]
     /\ analysis.losses[10] < analysis.losses[20]
WindLossIncreasing(powers) ==
  (/\ wf_ret.op = "_transmission_loss" /\ wf_ret'.op = "_transmission_loss"
   /\ wf_ret'.power = wf_ret.power /\ wf_ret.power \in powers
   /\ wf_ret'.distance > wf_ret.distance)
     => wf_ret'.value > wf_ret.value
C13_LossIncreasingFromZero ==
  [][AnalysisIncreasing({p \in Int : p >= 0})' /\ WindLossIncreasing({p \in Int : p >= 0})]_vars
\* C13 (amended): the same for every power > 0; at power 0 the loss is 0 at
\* every distance.
C13_LossIncreasing ==
  [][/\ AnalysisIncreasing({p \in Int : p > 0})'
     /\ WindLossIncreasing({p \in Int : p > 0})
     /\ (analysis'.losses # <<>> /\ analysis'.power = 0) =>
           \A k \in 1..20 : analysis'.losses[k] = 0
     /\ (wf_ret'.op = "_transmission_loss" /\ wf_ret'.power = 0) => wf_ret'.value = 0]_vars
C13_Witness ==
  /\ analysis.power > 0
  /\ Len(analysis.losses) = 20
  /\ wf_ret.op = "_transmission_loss"
  /\ wf_ret.power > 0
  /\ wf_ret.distance = 2000

\* C14: a wind farm built with rated capacity 0 returns 0 from
\* realistic_output at every time and every distance, and the call raises no
\* division by zero.
C14_ZeroCapacity ==
  (wf_ret.op = "realistic_output" /\ wind_farm.capacity_MW = 0) =>
     /\ wf_ret.status = "ok"
     /\ wf_ret.value = 0
C14_Witness ==
  /\ wf_ret.op = "realistic_output"
  /\ wind_farm.capacity_MW = 0
  /\ wf_ret.time >= 24 * 60
  /\ wf_ret.distance = 1000

\* C15: a wind farm with a zero or negative rotor radius yields output 0: the
\* division by the rated turbine power never raises, and the result is never
\* negative.
C15_DegenerateRotor ==
  (wf_ret.op = "realistic_output" /\ wind_farm.rotor_radius <= 0) =>
     /\ wf_ret.status = "ok"
     /\ wf_ret.value = 0

\* C20: for generated power >= 0 and any distance and voltage,
\* transmission_loss returns a value >= 0 and net_power returns
\* max(generated - loss, 0), so that 0 <= net_power <= generated; neither
\* call modifies the PowerSystem object.
C20_NetPower ==
  [][/\ power_system' = power_system
     /\ ps_ret'.power >= 0 =>
          /\ ps_ret'.loss >= 0
          /\ ps_ret'.op = "transmission_loss" => ps_ret'.value = ps_ret'.loss
          /\ ps_ret'.op = "net_power" =>
               /\ ps_ret'.value =
                    Max(ps_ret'.power
                          - LossUnits(ps_ret'.loss, power_system.cable_area,
                                      power_system.voltage), 0)
               /\ 0 <= ps_ret'.value
               /\ ps_ret'.value <= ps_ret'.power]_vars
C20_Witness ==
  /\ ps_ret.op = "net_power"
  /\ ps_ret.power > 0
  /\ LossUnits(ps_ret.loss, power_system.cable_area, power_system.voltage) > ps_ret.power
  /\ ps_ret.value = 0

ConfigValid(c) ==
  /\ c.capacity > 0
  /\ 0 <= c.min_soc /\ c.min_soc <= 100
  /\ c.time_step_mins > 0
C17_InvalidConfigRejected ==
  ~ConfigValid(CONFIG) => \A p \in Plants : ~Stepped(p)

\* C18: two HybridPowerPlant instances, and two PowerMetrics instances, share
\* no mutable state: under any interleaving a step on one instance leaves the
\* battery_soc and soc_history, or the metrics, emissions and
\* utilization_samples, of every other instance unchanged.
PlantState(p) == <<battery_soc[p], soc_history[p]>>
AggregatorState(m) == <<metrics[m], emissions[m], utilization_samples[m]>>
C18_Independent ==
  [][/\ \A p \in Plants :
          PlantState(p)' # PlantState(p) =>
            /\ \A q \in Plants \ {p} : PlantState(q)' = PlantState(q)
            /\ \A m \in Aggregators : AggregatorState(m)' = AggregatorState(m)
     /\ \A m \in Aggregators :
          AggregatorState(m)' # AggregatorState(m) =>
            /\ \A n \in Aggregators \ {m} : AggregatorState(n)' = AggregatorState(n)
            /\ \A p \in Plants : PlantState(p)' = PlantState(p)]_vars
C18_Witness ==
  /\ Stepped(1) /\ Stepped(2)
  /\ soc_history[1] # soc_history[2]
  /\ utilization_samples[1] # <<>> /\ utilization_samples[2] # <<>>
  /\ utilization_samples[1] # utilization_samples[2]

\* C19: every optimize_dispatch call appends exactly one entry to soc_history
\* and sets battery_soc to it: the history grows by one per step, its last
\* entry equals battery_soc and the 'soc' the step returned, and the earlier
\* entries are never modified.
C19_HistoryAppend ==
  [][\A p \in Plants :
       <<call[p], ret[p], lp_status[p], PlantState(p)>>'
           # <<call[p], ret[p], lp_status[p], PlantState(p)>> =>
         /\ Len(soc_history'[p]) = Len(soc_history[p]) + 1
         /\ SubSeq(soc_history'[p], 1, Len(soc_history[p])) = soc_history[p]
         /\ soc_history'[p][Len(soc_history'[p])] = battery_soc'[p]
         /\ ret'[p].soc = battery_soc'[p]]_vars
C19_Witness ==
  /\ Len(soc_history[1]) >= 3
  /\ soc_history[1][Len(soc_history[1])] = battery_soc[1]
  /\ soc_history[1][1] # soc_history[1][2]
  /\ soc_history[1][2] # soc_history[1][3]
  /\ ret[1].soc = battery_soc[1]

\* C21: across a sequence of update_metrics calls with non-negative powers and
\* durations every running energy total and every emissions total never
\* decreases, and each call appends exactly one entry to utilization_samples,
\* leaving the earlier entries as they were.
C21_MonotoneTotals ==
  [][\A m \in Aggregators :
       metrics'[m] # metrics[m] =>
         /\ \A k \in MetricKeys : metrics'[m][k] >= metrics[m][k]
         /\ \A k \in EmissionKeys : emissions'[m][k] >= emissions[m][k]
         /\ Len(utilization_samples'[m]) = Len(utilization_samples[m]) + 1
         /\ SubSeq(utilization_samples'[m], 1, Len(utilization_samples[m]))
              = utilization_samples[m]]_vars
C21_Witness ==
  /\ Len(utilization_samples[1]) = 3
  /\ utilization_samples[1][1] # utilization_samples[1][2]
  /\ metrics[1]["grid_energy_wh"] > 0
  /\ emissions[1]["wind_emissions_kg"] > 0

\* C22: update_metrics adds power * duration_hours to the total of every
\* category present in the record and leaves the totals of absent categories
\* unchanged; a record lacking a category is accepted, never aborted part-way
\* with earlier totals already modified.
C22_AbsentAccepted ==
  [][\A m \in Aggregators :
       (metrics'[m] # metrics[m] \/ raised'[m] # raised[m]) =>
         \E data \in TimestepRecords :
           /\ raised'[m] = "none"
           /\ \A i \in 1..Len(MetricOrder) :
                metrics'[m][MetricOrder[i][1]] =
                  metrics[m][MetricOrder[i][1]]
                    + (IF MetricOrder[i][2] \in DOMAIN data
                         THEN Energy(data, MetricOrder[i][2]) ELSE 0)]_vars

\* C23: after any sequence of updates each source's emissions in kg are its
\* delivered energy in MWh times its emissions factor in kg/MWh, the powers
\* being in watts.  Totals are in 1/12 Wh and emissions in 1/12000 kg, so that
\* kg = MWh * factor reads emissions = total * factor / 1000, to the unit.
C23_EmissionsPerMWh ==
  \A m \in Aggregators :
    /\ emissions[m]["grid_emissions_kg"] =
         (metrics[m]["grid_energy_wh"] * GRID_EMISSIONS_FACTOR_KGCO2_MWH) \div 1000
    /\ emissions[m]["wind_emissions_kg"] =
         (metrics[m]["wind_delivered_wh"] * WIND_EMISSIONS_FACTOR_KGCO2_MWH) \div 1000

\* C24: for every time and every distance_km >= 0 the value realistic_output
\* returns lies between 0 and capacity_MW * cf.
C24_OutputWithinLimit ==
  wf_ret.op = "realistic_output" =>
    /\ wf_ret.status = "ok"
    /\ 0 <= wf_ret.value
    /\ wf_ret.value * 1000 <= wind_farm.capacity_MW * wind_farm.cf
C24_Witness ==
  /\ wf_ret.op = "realistic_output"
  /\ wind_farm.capacity_MW > 0
  /\ wf_ret.value > 0
  /\ wf_ret.value = (wind_farm.capacity_MW * wind_farm.cf) \div 1000
  /\ turbine_power(wind_farm, effective_speed(wf_ret.time)) * 1000
       > turbine_power(wind_farm, RATED_SPEED) * wind_farm.cf

\* C25: every iteration of the orchestrator loop calls the dispatch optimizer
\* once, then updates the metrics aggregator once, then advances the simulated
\* time by one step; after the run the numbers of dispatch steps, metrics
\* updates and time advances all equal N.
C25_LoopOrder ==
  /\ Len(soc_history[1]) = step
  /\ Len(utilization_samples[1]) = step
  /\ current_time = step * TIME_STEP_MINUTES
  /\ run_pc = "returned" =>
       /\ Len(soc_history[1]) = SIMULATION_STEPS
       /\ Len(utilization_samples[1]) = SIMULATION_STEPS
       /\ step = SIMULATION_STEPS

\* C26: in each step record wind_delivered is the capacity-limited farm power
\* minus exactly one transmission loss for the configured distance (the value
\* the wind model returns, with no second loss between it and the record), and
\* wind_generated is the generation before the loss.
RecordTime(k) == ((k - 1) * TIME_STEP_MINUTES) % (24 * 60)
LimitedPower(wf, time_min) ==
  Min((turbine_power(wf, effective_speed(time_min)) * wf.capacity_MW)
        \div turbine_power(wf, RATED_SPEED),
      (wf.capacity_MW * wf.cf) \div 1000)
C26_SingleLoss ==
  \A k \in 1..Len(power_data) :
    /\ power_data[k].wind_delivered =
         realistic_output(wind_farm, RecordTime(k), power_system.distance).value * 10000
    /\ power_data[k].wind_generated = LimitedPower(wind_farm, RecordTime(k)) * 10000

\* C27: with a positive curtailment penalty the decision of every feasible
\* step uses all available renewables: wind_used = wind_available and
\* solar_used = solar_available, so wind_curtail = solar_curtail = 0.
C27_NoCurtailment ==
  \A p \in Plants :
    (Optimal(p) /\ PENALTY_COST_CURTAILMENT > 0) =>
      /\ ret[p].wind_used = call[p].wind
      /\ ret[p].solar_used = call[p].solar
      /\ ret[p].wind_curtail = 0
      /\ ret[p].solar_curtail = 0
C27_Witness ==
  /\ Optimal(1)
  /\ call[1].wind + call[1].solar > call[1].demand
  /\ call[1].wind > 0 /\ call[1].solar > 0
  /\ ret[1].wind_used = call[1].wind
  /\ ret[1].battery_charge = 0

\* C28: the grid import of every feasible decision is exactly the shortfall
\* that renewables and the battery cannot cover:
\*   grid = max(0, hpc_demand - wind_available - solar_available - d_max),
\*   d_max = min(max_charge, (battery_soc - min_soc * capacity) * efficiency / timestep_hr).
DMax(soc) == Min(MaxCharge, (soc - MinSocLevel) * DischargeDiv)
C28_GridIsShortfall ==
  \A p \in Plants :
    Optimal(p) =>
      ret[p].grid = Max(0, call[p].demand - call[p].wind - call[p].solar - DMax(call[p].soc))

C30_GridCoversDemand ==
  /\ \A k \in 1..Len(power_data) :
       /\ power_data[k].grid_power =
            Max(power_data[k].total_power - power_data[k].wind_delivered, 0)
       /\ power_data[k].wind_delivered + power_data[k].grid_power >= power_data[k].total_power
       /\ power_data[k].power_deficit = 0
  /\ gw_ret.op = "calculate_grid_and_wind_power" =>
       /\ gw_ret.wind_used + gw_ret.grid_power = gw_ret.total_power
       /\ gw_ret.deficit = 0
C30_Witness ==
  /\ gw_ret.op = "calculate_grid_and_wind_power"
  /\ gw_ret.wind_delivered > gw_ret.total_power /\ gw_ret.total_power > 0
  /\ gw_ret.grid_power = 0
  /\ Len(power_data) > 0
  /\ power_data[1].grid_power > 0 /\ power_data[1].wind_delivered > 0
====
